---- MODULE Spec2Model ----
(***************************************************************************)
(* AI Calendar: the submission handler POST /api/openai, the event store   *)
(* (EVENTS) behind GET/POST /api/events, the requests between them, the    *)
(* direct callers of the store (createEvent, GET) and CalendarView's fetch.*)
(*                                                                         *)
(* JavaScript values are records [kind, s, t]: kind is the JS type, s the  *)
(* text of a string (or of the single element of an array), t the instant  *)
(* of a date (in half hours).  A date-time string and a Date object are    *)
(* different kinds, so parsing and serialising are real conversions.       *)
(***************************************************************************)
EXTENDS Integers, Sequences, FiniteSets, TLC

\* ------------------------------------------------------------------ bounds
MaxPromptLen == 1   \* longest request text, in characters
MaxTime      == 1   \* instants proposed by the upstream service: 0..MaxTime
NumSubs      == 2   \* concurrent submissions of SpecConc
NumClients   == 2   \* createEvent calls of SpecStore
MaxEvents    == 2   \* longest event list of SpecFilter

\* ------------------------------------------------------------- JS values
V(k, str, n) == [kind |-> k, s |-> str, t |-> n]

Undefined   == V("undefined", "", 0)
Null        == V("null", "", 0)
Str(x)      == V("string", x, 0)
Arr1(x)     == V("array", x, 0)          \* the array [x]
Func        == V("function", "Object", 0)
DateTime(n) == V("datetime", "", n)      \* an ISO 8601 date-time string
DateObj(n)  == V("Date", "", n)          \* a Date object
InvalidDate == V("InvalidDate", "", 0)   \* a Date object holding NaN

\* The seven categories and their colors.
Categories == {"lecture", "tutorial", "club", "social", "exam", "assignment", "other"}

EVENT_TYPE_COLORS ==
  [c \in Categories |->
     CASE c = "lecture"    -> "#3B82F6"
       [] c = "tutorial"   -> "#10B981"
       [] c = "club"       -> "#8B5CF6"
       [] c = "social"     -> "#EC4899"
       [] c = "exam"       -> "#EF4444"
       [] c = "assignment" -> "#F59E0B"
       [] c = "other"      -> "#6B7280"]

\* Names every object literal inherits from Object.prototype (a sample).
InheritedProps == {"constructor", "toString"}

\* ToPropertyKey: the string a value becomes when used as obj[value].
ToPropertyKey(v) ==
  CASE v.kind = "string"    -> v.s
    [] v.kind = "array"     -> v.s
    [] v.kind = "null"      -> "null"
    [] v.kind = "undefined" -> "undefined"
    [] OTHER                -> "[object Object]"

\* EVENT_TYPE_COLORS[key]: own properties first, then the prototype chain.
PropertyGet(key) ==
  IF key \in Categories THEN Str(EVENT_TYPE_COLORS[key])
  ELSE IF key \in InheritedProps THEN Func
  ELSE Undefined

\* JavaScript truthiness, as the || operator tests it.
Truthy(v) ==
  /\ v.kind \notin {"undefined", "null"}
  /\ ~(v.kind = "string" /\ v.s = "")

\* An event object: the fields the handlers read or write.
EventFields == {"title", "start", "end", "eventType", "color", "resource"}
EmptyObject == [f \in EventFields |-> Undefined]

\* JSON.stringify followed by JSON.parse on the receiving side: properties
\* holding undefined or a function are dropped, a Date becomes its ISO
\* string, an invalid Date becomes null.
WireValue(v) ==
  CASE v.kind \in {"undefined", "function"} -> Undefined
    [] v.kind = "Date"                      -> DateTime(v.t)
    [] v.kind = "InvalidDate"               -> Null
    [] OTHER                                -> v

Wire(obj) == [f \in DOMAIN obj |-> WireValue(obj[f])]

\* new Date(v)
NewDate(v) ==
  CASE v.kind = "datetime" -> DateObj(v.t)
    [] v.kind = "Date"     -> DateObj(v.t)
    [] v.kind = "null"     -> DateObj(0)
    [] OTHER               -> InvalidDate

\* A JSON document as a client reads it: a bare array, or an object whose
\* events property holds an array.
JsonArray(items)        == [kind |-> "array", items |-> items]
JsonEventsObject(items) == [kind |-> "object", items |-> items]
NoJson                  == [kind |-> "none", items |-> <<>>]

NoGet == [status |-> 0, json |-> NoJson]

\* ------------------------------------------------------------ request text
Chars == {" ", "a"}
IsSpace(c) == c = " "

Prompts == UNION {[1..n -> Chars] : n \in 0..MaxPromptLen}

RECURSIVE TrimStart(_)
TrimStart(p) ==
  IF p # <<>> /\ IsSpace(Head(p)) THEN TrimStart(Tail(p)) ELSE p

RECURSIVE TrimEnd(_)
TrimEnd(p) ==
  IF p # <<>> /\ IsSpace(p[Len(p)]) THEN TrimEnd(SubSeq(p, 1, Len(p) - 1)) ELSE p

\* String.prototype.trim
Trim(p) == TrimEnd(TrimStart(p))

\* ------------------------------------------------ inputs of a submission
\* eventType as the request body may carry it: omitted, a category, another
\* string, the empty string, the name of an inherited property, null, an array.
EventTypeInputs ==
  {Undefined, Null, Arr1("lecture"), Str(""), Str("party"), Str("constructor")}
    \cup {Str(c) : c \in Categories}

TitleVals == {Undefined, Str(""), Str("Coffee with Sam")}
TimeVals  == {Undefined, Str("soon")} \cup {DateTime(n) : n \in 0..MaxTime}

\* The objects the tool call's arguments may encode.  The service is free to
\* add eventType, color and resource properties of its own.
Proposals ==
  {[title |-> ti, start |-> st, end |-> en, eventType |-> et, color |-> co, resource |-> re] :
     ti \in TitleVals, st \in TimeVals, en \in TimeVals,
     et \in {Undefined, Str("exam")}, co \in {Undefined, Str("#000000")},
     re \in {Undefined, Str("exam")}}

\* toolCall.function.arguments: a JSON text, the empty string, or text that
\* is not JSON.
ArgsOf(o)     == [kind |-> "json", obj |-> o]
EmptyArgs     == [kind |-> "empty", obj |-> EmptyObject]
MalformedArgs == [kind |-> "malformed", obj |-> EmptyObject]

\* What awaiting openai.chat.completions.create can produce.
ChatError      == [kind |-> "error", args |-> EmptyArgs]
ChatNoToolCall == [kind |-> "no_tool_call", args |-> EmptyArgs]
ChatToolCall(a) == [kind |-> "tool_call", args |-> a]
NoChat         == [kind |-> "none", args |-> EmptyArgs]

ToolCallsOver(P) == {ChatToolCall(ArgsOf(o)) : o \in P}

UpstreamResponses ==
  {ChatError, ChatNoToolCall, ChatToolCall(EmptyArgs), ChatToolCall(MalformedArgs)}
    \cup ToolCallsOver(Proposals)

\* The narrower inputs of the concurrent specification.
ConcPrompts == {<<"a">>}
ConcEventTypes == {Str("lecture"), Str("constructor")}
ConcProposals ==
  {[title |-> Str("Coffee with Sam"), start |-> DateTime(0), end |-> en,
    eventType |-> x, color |-> x, resource |-> x] :
     en \in {Undefined, DateTime(1)}, x \in {Undefined, Str("social")}}
ConcResponses == {ChatError, ChatNoToolCall} \cup ToolCallsOver(ConcProposals)

\* The events a caller of createEvent passes: one with a color of the
\* caller's own and string dates, one with a Date object and no end.
ClientEvents ==
  {[title |-> Str("Coffee with Sam"), start |-> DateTime(0), end |-> DateTime(1),
    eventType |-> Str("lecture"), color |-> Str("#000000"), resource |-> Undefined],
   [title |-> Str("Coffee with Sam"), start |-> DateObj(1), end |-> Undefined,
    eventType |-> Str("exam"), color |-> Str("#EF4444"), resource |-> Undefined]}

\* The one submission that runs beside the createEvent calls.
StoreEventTypes == {Str("exam")}
StoreResponses ==
  {ChatNoToolCall,
   ChatToolCall(ArgsOf([title |-> Str("Coffee with Sam"), start |-> DateTime(0),
                        end |-> DateTime(1), eventType |-> Undefined,
                        color |-> Undefined, resource |-> Undefined]))}

\* What the user of AIInput types, and what the completion service answers
\* to a submission made from the page.  The event type buttons only choose
\* the eventType of the request body, whose every value Spec covers; here
\* the type stays 'other', as selected at mount.
InputTexts == {<<>>, <<" ">>, <<"a">>}
InputResponses ==
  {ChatError, ChatNoToolCall,
   ChatToolCall(ArgsOf([title |-> Str("Coffee with Sam"), start |-> DateTime(0),
                        end |-> DateTime(1), eventType |-> Undefined,
                        color |-> Undefined, resource |-> Undefined]))}

\* The lists of events a GET may list to the calendar, by event type: two
\* types of the table and one the table does not know.
FetchedEventTypes == {Str("lecture"), Str("exam"), Str("party")}
FetchedEvent(et) ==
  [title |-> Str("Coffee with Sam"), start |-> DateTime(0), end |-> Null,
   eventType |-> et, color |-> Str("#000000"), resource |-> et]
FetchedLists ==
  UNION {[1..n -> {FetchedEvent(et) : et \in FetchedEventTypes}] : n \in 0..MaxEvents}

\* The filter buttons the user clicks: keys of EVENT_TYPES.
FilterTypes == {"lecture", "exam", "other"}

\* ------------------------------------------------------------------- state
VARIABLES
  EVENTS,             \* the store: let EVENTS: any[] = []
  storedBy,           \* history: which submission's request pushed EVENTS[i]
  pc,                 \* where each POST /api/openai handler stands
  req,                \* the request body it received
  eventType,          \* its eventType after destructuring with the default
  chat,               \* the completion it awaited
  enhancedEventData,  \* the event it built
  fwd,                \* its request to /api/events: stage and JSON body
  response,           \* what it answered its caller
  upstreamCalls,      \* requests it issued to the completion service
  storeRequests,      \* requests it issued to /api/events
  cli,                \* each createEvent call: its request and how it ended
  got,                \* the answer to an API client's latest GET /api/events
  calPc,              \* CalendarView: unmounted, fetching, idle
  calLoading,         \* its loading state
  calEvents,          \* its events state
  calGet,             \* its fetch of /api/events: stage and the JSON read
  calFilter,          \* its filter state
  aiInput,            \* AIInput: the text of the input field
  aiLoading,          \* its loading state
  aiSelectedType,     \* its selectedType state
  aiShowSuccess,      \* its showSuccess state
  aiCall,             \* its fetch to /api/openai for each submission: stage
  aiTimer,            \* seconds left on the hide timer each submission set
  aiShownBy           \* history: the submission that showed the message

clientVars == <<cli, got>>
calVars    == <<calPc, calLoading, calEvents, calGet>>
aiVars     == <<aiInput, aiLoading, aiSelectedType, aiShowSuccess, aiCall,
                aiTimer, aiShownBy>>

vars == <<EVENTS, storedBy, pc, req, eventType, chat, enhancedEventData, fwd,
          response, upstreamCalls, storeRequests, clientVars, calVars,
          calFilter, aiVars>>

Subs == DOMAIN pc

NoRequest  == [prompt |-> <<>>, eventType |-> Undefined]
NoForward  == [stage |-> "none", body |-> EmptyObject]
NoResponse == [status |-> 0, error |-> "", event |-> EmptyObject]

\* NextResponse.json(body) and NextResponse.json({error}, {status})
JsonResponse(obj)       == [status |-> 200, error |-> "", event |-> Wire(obj)]
ErrorResponse(msg, st)  == [status |-> st, error |-> msg, event |-> EmptyObject]
\* An exception that leaves the handler: the framework answers 500.
Unhandled == ErrorResponse("Internal Server Error", 500)

InitN(n) ==
  /\ EVENTS = <<>>
  /\ storedBy = <<>>
  /\ pc = [s \in 1..n |-> "idle"]
  /\ req = [s \in 1..n |-> NoRequest]
  /\ eventType = [s \in 1..n |-> Undefined]
  /\ chat = [s \in 1..n |-> NoChat]
  /\ enhancedEventData = [s \in 1..n |-> EmptyObject]
  /\ fwd = [s \in 1..n |-> NoForward]
  /\ response = [s \in 1..n |-> NoResponse]
  /\ upstreamCalls = [s \in 1..n |-> 0]
  /\ storeRequests = [s \in 1..n |-> 0]

NoCall == [stage |-> "idle", body |-> EmptyObject, result |-> "none"]

\* m createEvent calls not yet made; no GET answered yet.
InitClients(m) ==
  /\ cli = [c \in 1..m |-> NoCall]
  /\ got = NoGet

Clients == DOMAIN cli

NoTimer == 0 - 1
NoSubmission == [stage |-> "none", prompt |-> <<>>, eventType |-> "other"]

\* useState(''), useState(false), useState('other'), useState(false); no
\* fetch made and no timer set for any of the n submissions to come.
InitAIInput(n) ==
  /\ aiInput = <<>>
  /\ aiLoading = FALSE
  /\ aiSelectedType = "other"
  /\ aiShowSuccess = FALSE
  /\ aiCall = [s \in 1..n |-> NoSubmission]
  /\ aiTimer = [s \in 1..n |-> NoTimer]
  /\ aiShownBy = 0

NoFetch == [stage |-> "none", json |-> NoJson]

\* useState([]), useState(true): the calendar before it mounts.
InitCalendar ==
  /\ calPc = "unmounted"
  /\ calLoading = TRUE
  /\ calEvents = <<>>
  /\ calGet = NoFetch
  /\ calFilter = <<>>

\* ------------------------------------------------- POST /api/openai, pieces
\* const { prompt, eventType = 'other' } = await req.json()
DefaultEventType(v) == IF v.kind = "undefined" THEN Str("other") ELSE v

\* Variant: the missing tool call goes unnoticed.
HasToolCallAlways(c) == TRUE
\* if (!toolCall) return ...
HasToolCall(c) == c.kind = "tool_call"

\* Variant: text that is not JSON is taken for the empty object.
ParseNeverThrows(a) == FALSE
\* JSON.parse(toolCall.function.arguments || '{}')
ParseThrows(a) == a.kind = "malformed"
ParseArguments(a) == IF a.kind = "empty" THEN EmptyObject ELSE a.obj

\* Variant: the lookup is skipped and every event gets the fallback color.
ColorAlwaysOther(et) == Str(EVENT_TYPE_COLORS["other"])
\* EVENT_TYPE_COLORS[eventType] || EVENT_TYPE_COLORS.other
ColorFor(et) ==
  LET c == PropertyGet(ToPropertyKey(et))
  IN  IF Truthy(c) THEN c ELSE Str(EVENT_TYPE_COLORS["other"])

\* Variant: the spread comes last, { eventType, color, resource, ...eventData },
\* so a property the arguments carry wins.
EnhanceSpreadLast(eventData, et) ==
  [f \in EventFields |->
     IF eventData[f].kind # "undefined" THEN eventData[f]
     ELSE CASE f = "eventType" -> et
            [] f = "color"     -> ColorFor(et)
            [] f = "resource"  -> et
            [] OTHER           -> Undefined]
\* { ...eventData, eventType, color: ..., resource: eventType }: the later
\* keys win over what the spread copied.
Enhance(eventData, et) ==
  [eventData EXCEPT !.eventType = et, !.color = ColorFor(et), !.resource = et]

\* Variant: the handler starts over after an upstream failure.
RetryOnChatError == "idle"
\* The handler's continuation after an upstream failure: the exception is
\* not caught, so the handler ends.
AfterChatError == "done"

\* ------------------------------------------------------ /api/events, pieces
\* EVENTS.push({ ...data, start: new Date(data.start), end: new Date(data.end) })
StoreRecord(data) ==
  [data EXCEPT !.start = NewDate(data.start), !.end = NewDate(data.end)]

\* Variant: the new event is put in front (unshift).
PushFront(evs, e) == <<e>> \o evs
\* Variant: the array is replaced by one holding the new event only.
PushReplace(evs, e) == <<e>>
\* Variant: the event is pushed twice.
PushTwice(evs, e) == Append(Append(evs, e), e)
\* EVENTS.push(e)
Push(evs, e) == Append(evs, e)

\* Variant: an empty store is answered with a placeholder entry.
GETBodyPlaceholder ==
  IF EVENTS = <<>> THEN <<EmptyObject>> ELSE [i \in DOMAIN EVENTS |-> Wire(EVENTS[i])]
\* GET: NextResponse.json(EVENTS)
GETBody == [i \in DOMAIN EVENTS |-> Wire(EVENTS[i])]

\* export async function GET() { return NextResponse.json(EVENTS); }
GETResponse == [status |-> 200, json |-> JsonArray(GETBody)]

\* ---------------------------------------------------------------- actions
\* POST /api/openai up to its first await on the completion service: read
\* the body, build the tools and the prompt (which embeds the request text
\* and the event type as they are), issue the one completion request.
Receive(s, P, T) ==
  /\ pc[s] = "idle"
  /\ \E p \in P, t \in T :
       /\ req' = [req EXCEPT ![s] = [prompt |-> p, eventType |-> t]]
       /\ eventType' = [eventType EXCEPT ![s] = DefaultEventType(t)]
  /\ upstreamCalls' = [upstreamCalls EXCEPT ![s] = @ + 1]
  /\ pc' = [pc EXCEPT ![s] = "awaitChat"]
  /\ UNCHANGED <<EVENTS, storedBy, chat, enhancedEventData, fwd, response, storeRequests>>
  /\ UNCHANGED <<clientVars, calVars>>
  /\ UNCHANGED <<aiVars, calFilter>>

\* The completion request settles and the handler runs to its next await
\* (the fetch to /api/events) or to its end.
ChatReturns(s, R) ==
  /\ pc[s] = "awaitChat"
  /\ \E r \in R :
       /\ chat' = [chat EXCEPT ![s] = r]
       /\ IF r.kind = "error"
          THEN \* the await throws
               /\ pc' = [pc EXCEPT ![s] = AfterChatError]
               /\ response' = [response EXCEPT ![s] = Unhandled]
               /\ UNCHANGED <<enhancedEventData, fwd, storeRequests>>
          ELSE IF ~HasToolCall(r)
          THEN /\ pc' = [pc EXCEPT ![s] = "done"]
               /\ response' = [response EXCEPT ![s] = ErrorResponse("No function call", 400)]
               /\ UNCHANGED <<enhancedEventData, fwd, storeRequests>>
          ELSE IF ParseThrows(r.args)
          THEN \* JSON.parse throws SyntaxError
               /\ pc' = [pc EXCEPT ![s] = "done"]
               /\ response' = [response EXCEPT ![s] = Unhandled]
               /\ UNCHANGED <<enhancedEventData, fwd, storeRequests>>
          ELSE LET e == Enhance(ParseArguments(r.args), eventType[s])
               IN  /\ enhancedEventData' = [enhancedEventData EXCEPT ![s] = e]
                   /\ fwd' = [fwd EXCEPT ![s] = [stage |-> "request", body |-> Wire(e)]]
                   /\ storeRequests' = [storeRequests EXCEPT ![s] = @ + 1]
                   /\ pc' = [pc EXCEPT ![s] = "awaitStore"]
                   /\ UNCHANGED response
  /\ UNCHANGED <<EVENTS, storedBy, req, eventType, upstreamCalls>>
  /\ UNCHANGED <<clientVars, calVars>>
  /\ UNCHANGED <<aiVars, calFilter>>

\* POST /api/events, run for the request submission s sent: parse the body,
\* push, answer { status: 'ok' }.  The handler touches nothing before its
\* await on req.json(), so the stage "request" covers the request in flight
\* and the handler suspended there; what follows the await runs in one step.
EventsPOST(s) ==
  /\ fwd[s].stage = "request"
  /\ EVENTS' = Push(EVENTS, StoreRecord(fwd[s].body))
  /\ storedBy' = Append(storedBy, s)
  /\ fwd' = [fwd EXCEPT ![s].stage = "response_ok"]
  /\ UNCHANGED <<pc, req, eventType, chat, enhancedEventData, response,
                 upstreamCalls, storeRequests>>
  /\ UNCHANGED <<clientVars, calVars>>
  /\ UNCHANGED <<aiVars, calFilter>>

\* The address built from NEXTAUTH_URL answers the request with an error
\* status without the events handler running (wrong host, 404, 401, 5xx).
ForwardRefused(s) ==
  /\ fwd[s].stage = "request"
  /\ fwd' = [fwd EXCEPT ![s].stage = "response_error"]
  /\ UNCHANGED <<EVENTS, storedBy, pc, req, eventType, chat, enhancedEventData,
                 response, upstreamCalls, storeRequests>>
  /\ UNCHANGED <<clientVars, calVars>>
  /\ UNCHANGED <<aiVars, calFilter>>

\* fetch rejects (no connection, or the connection is lost before the answer
\* arrives): the await throws and the handler ends with the exception.
ForwardRejects(s) ==
  /\ pc[s] = "awaitStore"
  /\ fwd[s].stage \in {"request", "response_ok", "response_error"}
  /\ fwd' = [fwd EXCEPT ![s].stage = "failed"]
  /\ pc' = [pc EXCEPT ![s] = "done"]
  /\ response' = [response EXCEPT ![s] = Unhandled]
  /\ UNCHANGED <<EVENTS, storedBy, req, eventType, chat, enhancedEventData,
                 upstreamCalls, storeRequests>>
  /\ UNCHANGED <<clientVars, calVars>>
  /\ UNCHANGED <<aiVars, calFilter>>

\* fetch resolves, with whatever status: res is not read, and the handler
\* returns NextResponse.json(enhancedEventData).
ForwardResolves(s) ==
  /\ pc[s] = "awaitStore"
  /\ fwd[s].stage \in {"response_ok", "response_error"}
  /\ fwd' = [fwd EXCEPT ![s].stage = "closed"]
  /\ pc' = [pc EXCEPT ![s] = "done"]
  /\ response' = [response EXCEPT ![s] = JsonResponse(enhancedEventData[s])]
  /\ UNCHANGED <<EVENTS, storedBy, req, eventType, chat, enhancedEventData,
                 upstreamCalls, storeRequests>>
  /\ UNCHANGED <<clientVars, calVars>>
  /\ UNCHANGED <<aiVars, calFilter>>

\* ------------------------------------------------- lib/api.ts createEvent
\* fetch('/api/events', { method: 'POST', body: JSON.stringify(eventData) })
CreateEvent(c, B) ==
  /\ cli[c].stage = "idle"
  /\ \E b \in B : cli' = [cli EXCEPT ![c] = [stage |-> "request", body |-> Wire(b),
                                             result |-> "none"]]
  /\ UNCHANGED <<EVENTS, storedBy, pc, req, eventType, chat, enhancedEventData, fwd,
                 response, upstreamCalls, storeRequests, got, calVars>>
  /\ UNCHANGED <<aiVars, calFilter>>

\* POST /api/events, run for the request of createEvent call c.
ClientEventsPOST(c) ==
  /\ cli[c].stage = "request"
  /\ EVENTS' = Push(EVENTS, StoreRecord(cli[c].body))
  /\ storedBy' = Append(storedBy, 0 - c)
  /\ cli' = [cli EXCEPT ![c].stage = "response_ok"]
  /\ UNCHANGED <<pc, req, eventType, chat, enhancedEventData, fwd, response,
                 upstreamCalls, storeRequests, got, calVars>>
  /\ UNCHANGED <<aiVars, calFilter>>

\* The request is answered with an error status without the handler running.
ClientRefused(c) ==
  /\ cli[c].stage = "request"
  /\ cli' = [cli EXCEPT ![c].stage = "response_error"]
  /\ UNCHANGED <<EVENTS, storedBy, pc, req, eventType, chat, enhancedEventData, fwd,
                 response, upstreamCalls, storeRequests, got, calVars>>
  /\ UNCHANGED <<aiVars, calFilter>>

\* fetch resolves: if (!response.ok) throw new Error('Failed to create
\* event'); return response.json()
CreateEventResolves(c) ==
  /\ cli[c].stage \in {"response_ok", "response_error"}
  /\ cli' = [cli EXCEPT ![c].stage = "closed",
                        ![c].result = IF cli[c].stage = "response_ok" THEN "ok" ELSE "threw"]
  /\ UNCHANGED <<EVENTS, storedBy, pc, req, eventType, chat, enhancedEventData, fwd,
                 response, upstreamCalls, storeRequests, got, calVars>>
  /\ UNCHANGED <<aiVars, calFilter>>

\* fetch rejects: createEvent's promise rejects with it.
CreateEventRejects(c) ==
  /\ cli[c].stage \in {"request", "response_ok", "response_error"}
  /\ cli' = [cli EXCEPT ![c].stage = "failed", ![c].result = "threw"]
  /\ UNCHANGED <<EVENTS, storedBy, pc, req, eventType, chat, enhancedEventData, fwd,
                 response, upstreamCalls, storeRequests, got, calVars>>
  /\ UNCHANGED <<aiVars, calFilter>>

\* GET /api/events for an API client: the handler has no await, so request,
\* handler and answer are one step; the store may move on afterwards.
ClientGET ==
  /\ got' = GETResponse
  /\ UNCHANGED <<EVENTS, storedBy, pc, req, eventType, chat, enhancedEventData, fwd,
                 response, upstreamCalls, storeRequests, cli, calVars>>
  /\ UNCHANGED <<aiVars, calFilter>>

\* ------------------------------------------------- components/Calendar.tsx
\* EVENT_TYPES[c].color
EVENT_TYPES ==
  [c \in Categories |->
     CASE c = "lecture"    -> "#3b82f6"
       [] c = "tutorial"   -> "#10b981"
       [] c = "club"       -> "#8b5cf6"
       [] c = "social"     -> "#ec4899"
       [] c = "exam"       -> "#ef4444"
       [] c = "assignment" -> "#f97316"
       [] c = "other"      -> "#6b7280"]

\* EVENT_TYPES[event.eventType]?.color || EVENT_TYPES.other.color: an
\* inherited property is a function without a color.
CalendarColor(et) ==
  IF ToPropertyKey(et) \in Categories
  THEN Str(EVENT_TYPES[ToPropertyKey(et)])
  ELSE Str(EVENT_TYPES["other"])

\* { ...event, start: new Date(event.start),
\*   end: new Date(event.end || event.start), color: ... }
TransformEvent(event) ==
  [event EXCEPT !.start = NewDate(event.start),
                !.end = NewDate(IF Truthy(event.end) THEN event.end ELSE event.start),
                !.color = CalendarColor(event.eventType)]

\* data.events?.map(...) || []: an array has no events property.
TransformedEvents(data) ==
  IF data.kind = "object"
  THEN [i \in DOMAIN data.items |-> TransformEvent(data.items[i])]
  ELSE <<>>

\* useEffect(() => { fetchEvents(); }, []): on mount, fetchEvents runs to
\* its await on fetch('/api/events').
CalMount ==
  /\ calPc = "unmounted"
  /\ calPc' = "fetching"
  /\ calLoading' = TRUE
  /\ calGet' = [stage |-> "request", json |-> NoJson]
  /\ UNCHANGED <<EVENTS, storedBy, pc, req, eventType, chat, enhancedEventData, fwd,
                 response, upstreamCalls, storeRequests, clientVars, calEvents>>
  /\ UNCHANGED <<aiVars, calFilter>>

\* GET /api/events, run for the calendar's request.
CalEventsGET ==
  /\ calGet.stage = "request"
  /\ calGet' = [stage |-> "response", json |-> GETResponse.json]
  /\ UNCHANGED <<EVENTS, storedBy, pc, req, eventType, chat, enhancedEventData, fwd,
                 response, upstreamCalls, storeRequests, clientVars,
                 calPc, calLoading, calEvents>>
  /\ UNCHANGED <<aiVars, calFilter>>

\* fetch and response.json() resolve: setEvents(transformedEvents), then
\* finally setLoading(false).
CalFetchResolves ==
  /\ calPc = "fetching"
  /\ calGet.stage = "response"
  /\ calEvents' = TransformedEvents(calGet.json)
  /\ calLoading' = FALSE
  /\ calPc' = "idle"
  /\ calGet' = [calGet EXCEPT !.stage = "read"]
  /\ UNCHANGED <<EVENTS, storedBy, pc, req, eventType, chat, enhancedEventData, fwd,
                 response, upstreamCalls, storeRequests, clientVars>>
  /\ UNCHANGED <<aiVars, calFilter>>

\* fetch rejects: catch sets events to [], finally setLoading(false).
CalFetchRejects ==
  /\ calPc = "fetching"
  /\ calGet.stage \in {"request", "response"}
  /\ calEvents' = <<>>
  /\ calLoading' = FALSE
  /\ calPc' = "idle"
  /\ calGet' = [calGet EXCEPT !.stage = "failed"]
  /\ UNCHANGED <<EVENTS, storedBy, pc, req, eventType, chat, enhancedEventData, fwd,
                 response, upstreamCalls, storeRequests, clientVars>>
  /\ UNCHANGED <<aiVars, calFilter>>

\* ------------------------------------ components/Calendar.tsx, the filter
\* filter.includes(v): a filter entry is a string and matches a string only.
FilterIncludes(f, v) == \E i \in DOMAIN f : v = Str(f[i])

\* Variant: a non-empty filter lists the types to leave out.
FilteredEventsHiding ==
  IF Len(calFilter) = 0 THEN calEvents
  ELSE SelectSeq(calEvents, LAMBDA event : ~FilterIncludes(calFilter, event.eventType))
\* filter.length === 0 ? events
\*   : events.filter(event => filter.includes(event.eventType))
filteredEvents ==
  IF Len(calFilter) = 0 THEN calEvents
  ELSE SelectSeq(calEvents, LAMBDA event : FilterIncludes(calFilter, event.eventType))

\* Variant: the type is appended whether or not it is present.
ToggledAlwaysAdds(prev, t) == Append(prev, t)
\* prev.includes(eventType) ? prev.filter(type => type !== eventType)
\*                          : [...prev, eventType]
Toggled(prev, t) ==
  IF \E i \in DOMAIN prev : prev[i] = t
  THEN SelectSeq(prev, LAMBDA type : type # t)
  ELSE Append(prev, t)

\* Variant: the count is taken over the events on display.
getEventCountDisplayed(t) ==
  Len(SelectSeq(filteredEvents, LAMBDA event : event.eventType = Str(t)))
\* events.filter(event => event.eventType === eventType).length
getEventCount(t) ==
  Len(SelectSeq(calEvents, LAMBDA event : event.eventType = Str(t)))

\* A filter button: toggleFilter(key)
toggleFilter(T) ==
  /\ \E t \in T : calFilter' = Toggled(calFilter, t)
  /\ UNCHANGED <<EVENTS, storedBy, pc, req, eventType, chat, enhancedEventData, fwd,
                 response, upstreamCalls, storeRequests, clientVars, calVars, aiVars>>

\* The 'Clear filters' button, rendered when filter.length > 0: setFilter([])
ClearFilters ==
  /\ Len(calFilter) > 0
  /\ calFilter' = <<>>
  /\ UNCHANGED <<EVENTS, storedBy, pc, req, eventType, chat, enhancedEventData, fwd,
                 response, upstreamCalls, storeRequests, clientVars, calVars, aiVars>>

\* ------------------------------------------------- components/AI_Input.tsx
\* setTimeout(..., 3000), in seconds
HideDelay == 3

\* if (!input.trim()) return;  and  disabled={... || !input.trim()}
InputIsBlank == Trim(aiInput) = <<>>

\* Variant: neither the button nor the Enter key looks at loading.
SubmitNeverBlocked == FALSE
\* disabled={loading || ...}  and  e.key === 'Enter' && !loading && ...
SubmitBlocked == aiLoading

\* Variant: the catch path leaves without clearing loading.
LoadingStaysAfterCatch == TRUE
\* finally { setLoading(false) }, reached through catch
LoadingAfterCatch == FALSE

\* res.json() throws when the body is not JSON: the framework's answer to
\* an exception that left the route handler.
ResJsonThrows(r) == r = Unhandled

\* onChange, the clear button, the example buttons: setInput(text)
AiSetInput(P) ==
  /\ \E p \in P : p # aiInput /\ aiInput' = p
  /\ UNCHANGED <<EVENTS, storedBy, pc, req, eventType, chat, enhancedEventData, fwd,
                 response, upstreamCalls, storeRequests, clientVars, calVars, calFilter,
                 aiLoading, aiSelectedType, aiShowSuccess, aiCall, aiTimer, aiShownBy>>

\* The submit button or the Enter key: handleSubmit up to its await on
\* fetch('/api/openai').  Submissions are numbered in the order they start.
AiSubmit(s) ==
  /\ aiCall[s].stage = "none"
  /\ \A r \in DOMAIN aiCall : r < s => aiCall[r].stage # "none"
  /\ ~SubmitBlocked
  /\ ~InputIsBlank
  /\ aiLoading' = TRUE
  /\ aiShowSuccess' = FALSE
  /\ aiShownBy' = 0
  /\ aiCall' = [aiCall EXCEPT ![s] = [stage |-> "pending", prompt |-> aiInput,
                                      eventType |-> aiSelectedType]]
  /\ UNCHANGED <<EVENTS, storedBy, pc, req, eventType, chat, enhancedEventData, fwd,
                 response, upstreamCalls, storeRequests, clientVars, calVars, calFilter,
                 aiInput, aiSelectedType, aiTimer>>

\* The request reaches POST /api/openai, whose handler starts with the body
\* JSON.stringify({ prompt: input, eventType: selectedType }).
AiDelivered(s) ==
  /\ aiCall[s].stage = "pending"
  /\ Receive(s, {aiCall[s].prompt}, {Str(aiCall[s].eventType)})

\* fetch resolves with the handler's answer, whatever its status; then
\* res.json(), setShowSuccess(true), setTimeout, setInput(''), and finally
\* setLoading(false); or res.json() throws and catch, finally run.
AiFetchResolves(s) ==
  /\ aiCall[s].stage = "pending"
  /\ pc[s] = "done"
  /\ IF ResJsonThrows(response[s])
     THEN /\ aiLoading' = LoadingAfterCatch
          /\ aiCall' = [aiCall EXCEPT ![s].stage = "threw"]
          /\ UNCHANGED <<aiInput, aiShowSuccess, aiTimer, aiShownBy>>
     ELSE /\ aiShowSuccess' = TRUE
          /\ aiShownBy' = s
          /\ aiTimer' = [aiTimer EXCEPT ![s] = HideDelay]
          /\ aiInput' = <<>>
          /\ aiLoading' = FALSE
          /\ aiCall' = [aiCall EXCEPT ![s].stage = "resolved"]
  /\ UNCHANGED <<EVENTS, storedBy, pc, req, eventType, chat, enhancedEventData, fwd,
                 response, upstreamCalls, storeRequests, clientVars, calVars, calFilter,
                 aiSelectedType>>

\* fetch rejects, before the request reached the handler or with the
\* handler's answer lost: catch, then finally setLoading(false).
AiFetchRejects(s) ==
  /\ aiCall[s].stage = "pending"
  /\ pc[s] \in {"idle", "done"}
  /\ aiLoading' = LoadingAfterCatch
  /\ aiCall' = [aiCall EXCEPT ![s].stage = "threw"]
  /\ UNCHANGED <<EVENTS, storedBy, pc, req, eventType, chat, enhancedEventData, fwd,
                 response, upstreamCalls, storeRequests, clientVars, calVars, calFilter,
                 aiInput, aiSelectedType, aiShowSuccess, aiTimer, aiShownBy>>

\* A second passes: every running hide timer has one second less to go.  A
\* timer that is due may still be waiting for its turn.
Tick ==
  /\ \E s \in DOMAIN aiTimer : aiTimer[s] > 0
  /\ aiTimer' = [s \in DOMAIN aiTimer |-> IF aiTimer[s] > 0 THEN aiTimer[s] - 1 ELSE aiTimer[s]]
  /\ UNCHANGED <<EVENTS, storedBy, pc, req, eventType, chat, enhancedEventData, fwd,
                 response, upstreamCalls, storeRequests, clientVars, calVars, calFilter,
                 aiInput, aiLoading, aiSelectedType, aiShowSuccess, aiCall, aiShownBy>>

\* The timer submission s set is due and runs: () => setShowSuccess(false)
AiTimerFires(s) ==
  /\ aiTimer[s] = 0
  /\ aiTimer' = [aiTimer EXCEPT ![s] = NoTimer]
  /\ aiShowSuccess' = FALSE
  /\ aiShownBy' = 0
  /\ UNCHANGED <<EVENTS, storedBy, pc, req, eventType, chat, enhancedEventData, fwd,
                 response, upstreamCalls, storeRequests, clientVars, calVars, calFilter,
                 aiInput, aiLoading, aiSelectedType, aiCall>>

\* ---------------------------------------------------------- specifications
\* One submission, every input.
Init == InitN(1) /\ InitClients(0) /\ InitCalendar /\ InitAIInput(0)

Next ==
  \/ \E s \in Subs : Receive(s, Prompts, EventTypeInputs)
  \/ \E s \in Subs : ChatReturns(s, UpstreamResponses)
  \/ \E s \in Subs : ForwardRefused(s)
  \/ \E s \in Subs : EventsPOST(s)
  \/ \E s \in Subs : ForwardResolves(s)
  \/ \E s \in Subs : ForwardRejects(s)

Spec == Init /\ [][Next]_vars

\* NumSubs submissions whose handlers interleave at their awaits.
InitConc == InitN(NumSubs) /\ InitClients(0) /\ InitCalendar /\ InitAIInput(0)

NextConc ==
  \/ \E s \in Subs : Receive(s, ConcPrompts, ConcEventTypes)
  \/ \E s \in Subs : ChatReturns(s, ConcResponses)
  \/ \E s \in Subs : ForwardRefused(s)
  \/ \E s \in Subs : EventsPOST(s)
  \/ \E s \in Subs : ForwardResolves(s)
  \/ \E s \in Subs : ForwardRejects(s)

SpecConc == InitConc /\ [][NextConc]_vars

\* The store under its three kinds of request: one submission, NumClients
\* createEvent calls and GETs, in any order.
InitStore == InitN(1) /\ InitClients(NumClients) /\ InitCalendar /\ InitAIInput(0)

NextStore ==
  \/ \E s \in Subs : Receive(s, ConcPrompts, StoreEventTypes)
  \/ \E s \in Subs : ChatReturns(s, StoreResponses)
  \/ \E s \in Subs : ForwardRefused(s)
  \/ \E s \in Subs : EventsPOST(s)
  \/ \E s \in Subs : ForwardResolves(s)
  \/ \E s \in Subs : ForwardRejects(s)
  \/ \E c \in Clients : CreateEvent(c, ClientEvents)
  \/ \E c \in Clients : ClientRefused(c)
  \/ \E c \in Clients : ClientEventsPOST(c)
  \/ \E c \in Clients : CreateEventResolves(c)
  \/ \E c \in Clients : CreateEventRejects(c)
  \/ ClientGET

SpecStore == InitStore /\ [][NextStore]_vars

\* The page: one submission and the calendar mounted beside it.
InitPage == InitN(1) /\ InitClients(0) /\ InitCalendar /\ InitAIInput(0)

NextPage ==
  \/ \E s \in Subs : Receive(s, ConcPrompts, ConcEventTypes)
  \/ \E s \in Subs : ChatReturns(s, ConcResponses)
  \/ \E s \in Subs : ForwardRefused(s)
  \/ \E s \in Subs : EventsPOST(s)
  \/ \E s \in Subs : ForwardResolves(s)
  \/ \E s \in Subs : ForwardRejects(s)
  \/ CalMount
  \/ CalEventsGET
  \/ CalFetchResolves
  \/ CalFetchRejects

SpecPage == InitPage /\ [][NextPage]_vars

\* The calendar's filter over every list of at most MaxEvents events that
\* fetchEvents may have made of an answer holding an events list.
InitFilter ==
  /\ InitN(0) /\ InitClients(0) /\ InitAIInput(0)
  /\ calPc = "idle"
  /\ calLoading = FALSE
  /\ \E items \in FetchedLists :
       /\ calGet = [stage |-> "read", json |-> JsonEventsObject(items)]
       /\ calEvents = TransformedEvents(JsonEventsObject(items))
  /\ calFilter = <<>>

NextFilter ==
  \/ toggleFilter(FilterTypes)
  \/ ClearFilters

SpecFilter == InitFilter /\ [][NextFilter]_vars

\* AIInput and the NumSubs submissions its user makes one after another.
InitInput == InitN(NumSubs) /\ InitClients(0) /\ InitCalendar /\ InitAIInput(NumSubs)

NextInput ==
  \/ AiSetInput(InputTexts)
  \/ \E s \in Subs : AiSubmit(s)
  \/ \E s \in Subs : AiDelivered(s)
  \/ \E s \in Subs : ChatReturns(s, InputResponses)
  \/ \E s \in Subs : ForwardRefused(s)
  \/ \E s \in Subs : EventsPOST(s)
  \/ \E s \in Subs : ForwardResolves(s)
  \/ \E s \in Subs : ForwardRejects(s)
  \/ \E s \in Subs : AiFetchResolves(s)
  \/ \E s \in Subs : AiFetchRejects(s)
  \/ Tick
  \/ \E s \in Subs : AiTimerFires(s)

SpecInput == InitInput /\ [][NextInput]_vars

\* The steps that do not wait for the user or the clock: the request is
\* delivered, the handler and the services it awaits go on, the answer
\* comes back.
RequestProgress ==
  \/ \E s \in Subs : AiDelivered(s)
  \/ \E s \in Subs : ChatReturns(s, InputResponses)
  \/ \E s \in Subs : EventsPOST(s)
  \/ \E s \in Subs : ForwardResolves(s)
  \/ \E s \in Subs : AiFetchResolves(s)

\* The same page, where a request that was started settles: no awaited
\* promise stays pending for ever.
SpecInputLive == SpecInput /\ WF_vars(RequestProgress)

\* ------------------------------------------------------------------ claims
\* The store indices pushed on behalf of submission s.
StoredFor(s) == {i \in DOMAIN storedBy : storedBy[i] = s}

\* Submission s has answered its caller with an event.
AnsweredEvent(s) == pc[s] = "done" /\ response[s].status = 200

CategoryValues == {Str(c) : c \in Categories}
OtherColor == Str(EVENT_TYPE_COLORS["other"])

\* C1: a submission that fails leaves the store unchanged, and a submission
\* that answers with an event has appended exactly one event, with the title,
\* eventType and color of the event it returned.
C1_FailureKeepsStoreSuccessAppendsOne ==
  \A s \in Subs :
    pc[s] = "done" =>
      IF response[s].status = 200
      THEN /\ Cardinality(StoredFor(s)) = 1
           /\ \A i \in StoredFor(s) :
                /\ EVENTS[i].title = response[s].event.title
                /\ EVENTS[i].eventType = response[s].event.eventType
                /\ EVENTS[i].color = response[s].event.color
      ELSE StoredFor(s) = {}

\* C2: when the completion holds no tool call, the step that handles it
\* answers 400 'No function call', sends nothing to /api/events and leaves
\* the list GET /api/events returns as it was; so does receiving the request.
C2_NoToolCallStep(s) ==
  (pc[s] = "awaitChat" /\ pc'[s] # "awaitChat" /\ chat'[s].kind = "no_tool_call") =>
     /\ pc'[s] = "done"
     /\ response'[s] = ErrorResponse("No function call", 400)
     /\ storeRequests'[s] = 0
     /\ fwd'[s] = NoForward
     /\ GETBody' = GETBody

C2_NoToolCallIsRejected ==
  [][\A s \in Subs :
       /\ C2_NoToolCallStep(s)
       /\ (pc[s] = "idle" /\ pc'[s] # "idle") => GETBody' = GETBody]_vars

C2_Witness ==
  \E s \in Subs :
    /\ pc[s] = "done"
    /\ chat[s].kind = "no_tool_call"
    /\ response[s].status = 400
    /\ Len(EVENTS) > 0

\* C3: a submission whose request text is empty after trimming is rejected
\* with EmptyInput and issues no request to the completion service.
C3_EmptyInputRejectedBeforeUpstream ==
  \A s \in Subs :
    (pc[s] # "idle" /\ Trim(req[s].prompt) = <<>>) =>
       /\ upstreamCalls[s] = 0
       /\ pc[s] = "done"
       /\ response[s].error = "EmptyInput"

\* The default duration of a category, in half hours: 30 minutes for
\* social, 2.5 hours for exam, 1 hour for the others.
DefaultDuration(c) ==
  CASE c = "social" -> 1
    [] c = "exam"   -> 5
    [] OTHER        -> 2

\* The parsed arguments of the tool call submission s received.
Proposed(s) == ParseArguments(chat[s].args)
GotProposal(s) == chat[s].kind = "tool_call" /\ ~ParseThrows(chat[s].args)

\* A proposal with a start whose end is absent or not later than the start.
NeedsDerivedEnd(o) ==
  /\ o.start.kind = "datetime"
  /\ (o.end.kind # "datetime" \/ o.end.t <= o.start.t)

\* C4: for every category, a proposal with a start but no end (or an end not
\* later than the start) yields a returned and a stored event whose end is
\* the start plus the category's default duration.
C4_EndDerivedFromDefaultDuration ==
  \A s \in Subs : \A c \in Categories :
    (GotProposal(s) /\ eventType[s] = Str(c) /\ NeedsDerivedEnd(Proposed(s))) =>
       /\ AnsweredEvent(s) =>
            response[s].event.end = DateTime(Proposed(s).start.t + DefaultDuration(c))
       /\ \A i \in StoredFor(s) :
            EVENTS[i].end = DateObj(Proposed(s).start.t + DefaultDuration(c))

\* C5: every stored event has a defined end that is not earlier than its start.
C5_StoredEndNotBeforeStart ==
  \A i \in DOMAIN EVENTS :
    /\ EVENTS[i].end.kind = "Date"
    /\ EVENTS[i].start.kind = "Date" => EVENTS[i].end.t >= EVENTS[i].start.t

\* A proposal with a title, a start and an end, the start before the end.
ValidProposal(o) ==
  /\ o.title.kind = "string"
  /\ o.start.kind = "datetime"
  /\ o.end.kind = "datetime"
  /\ o.start.t < o.end.t

C7_UnknownTypeGetsOtherColor ==
  \A s \in Subs :
    (req[s].eventType \notin CategoryValues \cup {Undefined}) =>
       /\ (AnsweredEvent(s) => response[s].event.color = OtherColor)
       /\ \A i \in StoredFor(s) : EVENTS[i].color = OtherColor

\* C8: an omitted eventType gives eventType 'other' and its color, and in
\* every case the category of a returned or stored event is one of the seven.
C8_CategoryDefaultsAndIsEnumerated ==
  \A s \in Subs :
    /\ (AnsweredEvent(s) /\ req[s].eventType = Undefined) =>
          /\ response[s].event.eventType = Str("other")
          /\ response[s].event.color = OtherColor
    /\ AnsweredEvent(s) => response[s].event.eventType \in CategoryValues
    /\ \A i \in StoredFor(s) : EVENTS[i].eventType \in CategoryValues

\* The eventType, color and resource of an event.
Classification(e) == <<e.eventType, e.color, e.resource>>

C10_OneUpstreamRequest ==
  \A s \in Subs :
    /\ upstreamCalls[s] <= 1
    /\ pc[s] # "idle" => upstreamCalls[s] = 1

C10_Witness ==
  \E s \in Subs :
    /\ pc[s] = "done"
    /\ chat[s].kind = "error"
    /\ upstreamCalls[s] = 1

\* ------------------------------------------------ claims on the event store
\* The events handler runs for submission s's, or createEvent call c's, request.
SubPostHandled(s) == fwd[s].stage = "request" /\ fwd'[s].stage = "response_ok"
ClientPostHandled(c) == cli[c].stage = "request" /\ cli'[c].stage = "response_ok"

\* g is event e as GET lists it: the same properties, start and end being
\* the instants e's date-time strings denote.
ListedAs(g, e) ==
  /\ \A f \in EventFields \ {"start", "end"} : g[f] = e[f]
  /\ \A f \in {"start", "end"} : e[f].kind = "datetime" => g[f] = DateTime(e[f].t)

\* What GET lists after the step is what it listed before, then e.
ListGrowsBy(e) ==
  /\ Len(GETBody') = Len(GETBody) + 1
  /\ SubSeq(GETBody', 1, Len(GETBody)) = GETBody
  /\ ListedAs(GETBody'[Len(GETBody')], e)

\* C11: a POST /api/events with event e makes GET list one event more: the
\* events listed before in the same order, then e with start and end as the
\* instants they denote; so POSTs are listed in the order they were applied.
C11_PostIsListedLast ==
  [][/\ \A s \in Subs : SubPostHandled(s) => ListGrowsBy(fwd[s].body)
     /\ \A c \in Clients : ClientPostHandled(c) => ListGrowsBy(cli[c].body)]_vars

\* Two different events were posted and a GET has listed both.
C11_Witness ==
  /\ Len(EVENTS) >= 2
  /\ got.status = 200
  /\ Len(got.json.items) = Len(EVENTS)
  /\ got.json.items[1] # got.json.items[2]
  /\ \E c \in Clients : cli[c].stage = "closed" /\ ListedAs(got.json.items[2], cli[c].body)

\* C12: GET /api/events succeeds in every reachable state of the store: it
\* answers 200 with one entry per stored event, in order, the empty list
\* when nothing was appended, and it leaves the store as it was.
C12_GetSucceedsAndReadsOnly ==
  /\ [](ENABLED ClientGET)
  /\ [][got' # got =>
          /\ got'.status = 200
          /\ got'.json.kind = "array"
          /\ Len(got'.json.items) = Len(EVENTS)
          /\ \A i \in DOMAIN EVENTS : got'.json.items[i].title = EVENTS[i].title
          /\ EVENTS = <<>> => got'.json.items = <<>>
          /\ EVENTS' = EVENTS]_vars

\* A GET was answered with the empty list before any event was appended.
C12_Witness ==
  /\ got.status = 200
  /\ got.json.items = <<>>
  /\ EVENTS = <<>>
  /\ \E c \in Clients : cli[c].stage = "request"

\* C13: the store is append-only: over every step of submissions, createEvent
\* calls and GETs, what the store held before is a prefix of what it holds after.
C13_StoreIsAppendOnly ==
  [][/\ Len(EVENTS') >= Len(EVENTS)
     /\ SubSeq(EVENTS', 1, Len(EVENTS)) = EVENTS]_vars

\* The store grew to three events, by a submission and by createEvent calls,
\* with a GET answered when it held one.
C13_Witness ==
  /\ Len(EVENTS) = 3
  /\ got.status = 200
  /\ Len(got.json.items) = 1
  /\ \E s \in Subs : StoredFor(s) # {}
  /\ \E c \in Clients : cli[c].result = "ok"

\* The body of the request that pushed a store entry: submission r's
\* forwarded request, or createEvent call -r's.
BodyOf(r) == IF r > 0 THEN fwd[r].body ELSE cli[0 - r].body

\* C14: however the requests interleave, each run of the events handler
\* appends exactly one whole event: the store grows by one per handled
\* request and by nothing else, every entry is the record of one request's
\* body, and no request has two entries.
C14_AppendsAreAtomic ==
  /\ [](/\ Len(storedBy) = Len(EVENTS)
        /\ \A i \in DOMAIN EVENTS : EVENTS[i] = StoreRecord(BodyOf(storedBy[i]))
        /\ \A i \in DOMAIN storedBy : \A j \in DOMAIN storedBy :
             storedBy[i] = storedBy[j] => i = j)
  /\ [][Len(EVENTS') = Len(EVENTS)
                         + Cardinality({s \in Subs : SubPostHandled(s)})
                         + Cardinality({c \in Clients : ClientPostHandled(c)})]_vars

\* Every request has run to its end, all were handled, and the createEvent
\* calls' events went in around the submission's.
C14_Witness ==
  /\ \A s \in Subs : pc[s] = "done" /\ fwd[s].stage = "closed"
  /\ \A c \in Clients : cli[c].result = "ok"
  /\ Len(EVENTS) = Cardinality(Subs) + Cardinality(Clients)
  /\ storedBy[1] < 0
  /\ storedBy[Len(storedBy)] < 0

\* -------------------------------------------- claims on failed submissions
\* C15: a submission whose upstream call failed, or whose tool call carried
\* arguments that are not JSON, ends with an error answer to its caller,
\* has sent no request to /api/events, and has put nothing in the store.
C15_UpstreamFailureStopsBeforeStore ==
  \A s \in Subs :
    (chat[s].kind = "error" \/ (chat[s].kind = "tool_call" /\ chat[s].args.kind = "malformed"))
      => /\ pc[s] = "done"
         /\ response[s].status = 500
         /\ storeRequests[s] = 0
         /\ fwd[s] = NoForward
         /\ StoredFor(s) = {}
         /\ EVENTS = <<>>

\* A submission ended on arguments that are not JSON.
C15_Witness ==
  \E s \in Subs :
    /\ pc[s] = "done"
    /\ chat[s].kind = "tool_call"
    /\ chat[s].args.kind = "malformed"
    /\ response[s].status = 500

\* An event with a non-empty title and a start that is an instant.
HasTitleAndStart(e) ==
  /\ e.title.kind = "string" /\ e.title.s # ""
  /\ e.start.kind \in {"datetime", "Date"}

\* The tool call's arguments are empty, or lack a title or a start.
IncompleteArguments(s) ==
  /\ chat[s].kind = "tool_call"
  /\ chat[s].args.kind # "malformed"
  /\ \/ chat[s].args.kind = "empty"
     \/ ~Truthy(chat[s].args.obj.title)
     \/ chat[s].args.obj.start.kind = "undefined"

\* C16: no partial or default event: every event answered to a caller or
\* held by the store has a non-empty title and a defined start, and a tool
\* call with empty arguments, or without title or start, stores no event.
C16_NoPartialEvent ==
  /\ \A i \in DOMAIN EVENTS : HasTitleAndStart(EVENTS[i])
  /\ \A s \in Subs :
       /\ AnsweredEvent(s) => HasTitleAndStart(response[s].event)
       /\ IncompleteArguments(s) => StoredFor(s) = {} /\ ~AnsweredEvent(s)

\* ------------------------------------------------- claims on the calendar
\* C17: GET /api/events answers with an object whose events property holds
\* the list of events, the shape fetchEvents reads as data.events.
C17_GetAnswersEventsObject ==
  calGet.stage \in {"response", "read"}
    => calGet.json = JsonEventsObject(calGet.json.items)

\* C18: when fetchEvents has run to its end without an error, the calendar's
\* events hold one entry per event the store held when GET answered, in the
\* store's order.
C18_FetchedEventsMirrorStore ==
  calGet.stage = "read"
    => /\ Len(calEvents) = Len(calGet.json.items)
       /\ \A i \in DOMAIN calEvents :
            /\ calEvents[i].title = calGet.json.items[i].title
            /\ calEvents[i].eventType = calGet.json.items[i].eventType

\* C19: once a submission has succeeded and its event is stored, the mounted
\* calendar comes to fetch again, so that it can show the event: whenever the
\* page has come to rest (no step is left to take) with the calendar's fetch
\* completed, that fetch has read the event.
C19_CalendarRefetchesNewEvent ==
  \A s \in Subs :
    (/\ ~ENABLED NextPage
     /\ calPc = "idle"
     /\ calGet.stage = "read"
     /\ AnsweredEvent(s)
     /\ StoredFor(s) # {})
      => \A i \in StoredFor(s) : i <= Len(calGet.json.items)

\* ---------------------------------------------------- claims on the color
\* C20: every event in the store has the color the fixed table gives its own
\* category (the color of 'other' for an unknown one), whoever posted it: the
\* submission handler or a direct caller of POST /api/events such as createEvent.
C20_StoredColorIsLookup ==
  \A i \in DOMAIN EVENTS :
    EVENTS[i].color =
      IF EVENTS[i].eventType \in CategoryValues
      THEN Str(EVENT_TYPE_COLORS[EVENTS[i].eventType.s])
      ELSE OtherColor

\* ---------------------------------------------------- claims on AIInput
\* C21: loading is always reset: once handleSubmit has started a request,
\* whether the request succeeds, is answered with an error or throws,
\* loading becomes false again (and with it the submit control's block).
C21_LoadingIsReset == aiLoading ~> ~aiLoading

\* One submission has ended in the catch branch and one with an answer, and
\* loading is false.
C21_Witness ==
  /\ ~aiLoading
  /\ \E s \in Subs : aiCall[s].stage = "threw"
  /\ \E s \in Subs : aiCall[s].stage = "resolved" /\ response[s].status = 400

\* C22: a success message that is showing is hidden only by the start of a
\* new submission or once the 3 seconds since it was shown have passed,
\* however successive submissions and their pending hide timers interleave.
C22_MessageShownThreeSeconds ==
  [][(/\ aiShowSuccess
      /\ ~aiShowSuccess'
      /\ \A s \in Subs : aiCall'[s].stage = aiCall[s].stage)
       => aiTimer[aiShownBy] = 0]_vars

\* C23: the success message shows, and the input is cleared, only for a
\* submission that was answered with an event that is in the store: a
\* submission answered with an error (400 'No function call') takes neither
\* step.  (stage "resolved" is the branch that shows the message and clears
\* the input.)
C23_SuccessOnlyAfterStoredEvent ==
  /\ \A s \in Subs :
       aiCall[s].stage = "resolved" => AnsweredEvent(s) /\ StoredFor(s) # {}
  /\ aiShowSuccess => AnsweredEvent(aiShownBy) /\ StoredFor(aiShownBy) # {}

\* C24: at most one request from AIInput to /api/openai is in flight at any
\* time, and one is in flight exactly while loading is true, when neither
\* the button nor the Enter key starts a submission.
C24_OneRequestInFlight ==
  /\ Cardinality({s \in Subs : aiCall[s].stage = "pending"}) <= 1
  /\ aiLoading <=> (\E s \in Subs : aiCall[s].stage = "pending")
  /\ aiLoading => \A s \in Subs : ~ENABLED AiSubmit(s)

\* A request is in flight with text in the input field, after an earlier
\* submission has ended.
C24_Witness ==
  /\ aiLoading
  /\ ~InputIsBlank
  /\ \E s \in Subs : aiCall[s].stage = "pending" /\ pc[s] = "awaitChat"
  /\ \E s \in Subs : aiCall[s].stage = "resolved"

\* ------------------------------------------- claims on the calendar filter
\* The positions of the events whose type is an entry of the filter.
Kept ==
  {i \in DOMAIN calEvents :
     \E j \in DOMAIN calFilter : calEvents[i].eventType = Str(calFilter[j])}
\* The j-th of them, counted from the front of the list.
NthKept(j) == CHOOSE i \in Kept : Cardinality({k \in Kept : k <= i}) = j

\* C25: with an empty filter the calendar displays exactly all events; with
\* a non-empty one exactly those whose eventType is in the filter, in their
\* original relative order.
C25_FilterSelectsInOrder ==
  /\ calFilter = <<>> => filteredEvents = calEvents
  /\ calFilter # <<>> =>
       /\ Len(filteredEvents) = Cardinality(Kept)
       /\ \A j \in 1..Cardinality(Kept) : filteredEvents[j] = calEvents[NthKept(j)]

\* Two types are in the filter; of two events the second is displayed, the
\* first, of a type the filter lacks, is not.
C25_Witness ==
  /\ Len(calFilter) = 2
  /\ Len(calEvents) = 2
  /\ Kept = {2}
  /\ filteredEvents = <<calEvents[2]>>

InFilter(f, t) == \E i \in DOMAIN f : f[i] = t
Displayed(list, e) == \E i \in DOMAIN list : list[i] = e
EventsOfType(t) == {calEvents[i] : i \in {k \in DOMAIN calEvents : calEvents[k].eventType = Str(t)}}

====
